---- MODULE Spec2Model ----
(***************************************************************************)
(* A model of src/main.py: the AugmentCodeManager command-line tool.       *)
(*                                                                         *)
(* The state is the part of the local filesystem the tool reads and        *)
(* writes: the editor's globalStorage directory and the extension's        *)
(* configuration directory in it (the "live configuration"), the backup    *)
(* directory with its snapshots, and the workspace directory with its      *)
(* profiles.  Every command-line invocation (main) is one action: it       *)
(* constructs the manager and runs one handler to its end.                 *)
(*                                                                         *)
(* File contents are abstracted to integers: an identifier file holds the  *)
(* identifier, the history file holds its number of entries, the database  *)
(* holds a content version.                                                *)
(***************************************************************************)
EXTENDS Integers, Sequences, FiniteSets, TLC

VARIABLES
    system,      \* platform.system() of the host
    now,         \* the wall clock, in ticks finer than a second
    dirs,        \* the live directories that exist (by augment_paths key)
    files,       \* the files of the configuration directory: name -> content
    backups,     \* backup_dir: snapshot directory name -> its tree
    workspaces,  \* workspace dir: profile name -> workspace_config.json
    cmd,         \* the last command line and what the environment did to it
    ret,         \* how the last command ended and what its handler returned
    log,         \* the log lines of the last command, in order
    pre          \* the filesystem as it was when the last command started

vars == <<system, now, dirs, files, backups, workspaces, cmd, ret, log, pre>>

----------------------------------------------------------------------------
\* Bounds of the model.

\* The clock runs from 0 to MaxNow; every command takes at least one tick.
MaxNow == 3
\* Clock ticks per second: strftime("%Y%m%d_%H%M%S") drops what is below.
TicksPerSecond == 2
\* _generate_random_id draws from 1..MaxId.
MaxId == 2
\* The history file holds at most MaxHistory entries.
MaxHistory == 1

Systems == {"Windows", "Darwin", "Linux", "Other"}
Names == {"a", "b"}
Ids == 1..MaxId
Strategies == {"device_id", "telemetry_id", "history", "database"}
DbContents == {1}

\* The function with no arguments: an empty directory, an empty mapping.
EmptyMap == [x \in {} |-> 0]

Put(f, k, v) == [x \in DOMAIN f \cup {k} |-> IF x = k THEN v ELSE f[x]]

Remove(f, k) == [x \in DOMAIN f \ {k} |-> f[x]]

\* The names of the files the tool knows in the configuration directory.
DeviceIdFile == "deviceId.json"
TelemetryFile == "telemetry.json"

----------------------------------------------------------------------------
\* Path Resolver

\* _get_augment_paths: logical key -> path.  The directories are named by
\* their key; the two files by their name in the configuration directory.
augment_paths ==
    IF system \in {"Windows", "Darwin", "Linux"}
    THEN [k \in {"vscode", "augment_config", "database", "history"} |->
            CASE k = "vscode" -> "vscode"
              [] k = "augment_config" -> "augment_config"
              [] k = "database" -> "state.vscdb"
              [] k = "history" -> "history.json"]
    ELSE EmptyMap

\* Path.exists() of a path the mapping gave.
exists(p) == p \in dirs \/ ("augment_config" \in dirs /\ p \in DOMAIN files)

\* strftime("%Y%m%d_%H%M%S") of datetime.now(): second resolution.
timestamp == now \div TicksPerSecond

\* AugmentCodeManager.__init__: the lines every command logs first.
init_log ==
    (IF system \in {"Windows", "Darwin", "Linux"}
     THEN <<>> ELSE <<"ERROR unsupported system">>)
    \o <<"INFO manager initialised">>

NoCmd == [command |-> "", name |-> "", strategies |-> {}, fail |-> {}]

Snapshot == [now |-> now, dirs |-> dirs, files |-> files,
             backups |-> backups, workspaces |-> workspaces]

\* What every command does to the history variables and the clock.
Ran(c, r, l) ==
    /\ now < MaxNow
    /\ now' = now + 1
    /\ cmd' = c
    /\ ret' = r
    /\ log' = init_log \o l
    /\ pre' = Snapshot
    /\ UNCHANGED system

----------------------------------------------------------------------------
\* Workspace Manager

\* create_workspace(name): mkdir(exist_ok=True), then open(config_file, 'w').
create_workspace(name, device_id, telemetry_id) ==
    /\ workspaces' = Put(workspaces, name,
                         [name |-> name, created_at |-> now,
                          device_id |-> device_id,
                          telemetry_id |-> telemetry_id])
    /\ Ran([NoCmd EXCEPT !.command = "create-workspace", !.name = name],
           [status |-> "ok", value |-> name],
           <<"INFO created workspace">>)
    /\ UNCHANGED <<dirs, files, backups>>

\* The live files after switch_to_workspace wrote the profile's identifiers:
\* each file is written only if it exists.
switch_files(config) ==
    LET f1 == IF exists(DeviceIdFile)
              THEN Put(files, DeviceIdFile, config.device_id) ELSE files
    IN  IF "augment_config" \in dirs /\ TelemetryFile \in DOMAIN f1
        THEN Put(f1, TelemetryFile, config.telemetry_id) ELSE f1

\* switch_to_workspace(name)
switch_to_workspace(name) ==
    LET c == [NoCmd EXCEPT !.command = "switch-workspace", !.name = name]
    IN
    IF name \notin DOMAIN workspaces
    THEN /\ Ran(c, [status |-> "ok", value |-> "None"],
                <<"ERROR workspace does not exist">>)
         /\ UNCHANGED <<dirs, files, backups, workspaces>>
    ELSE IF "augment_config" \notin DOMAIN augment_paths
    THEN \* self.augment_paths["augment_config"] raises KeyError
         /\ Ran(c, [status |-> "KeyError", value |-> "None"],
                <<"INFO switching to workspace">>)
         /\ UNCHANGED <<dirs, files, backups, workspaces>>
    ELSE /\ files' = switch_files(workspaces[name])
         /\ Ran(c, [status |-> "ok", value |-> "None"],
                <<"INFO switching to workspace", "INFO switched to workspace">>)
         /\ UNCHANGED <<dirs, backups, workspaces>>

----------------------------------------------------------------------------
\* Backup Operator

\* The entries of a source tree whose copy may raise: "." is the destination
\* directory itself (os.makedirs raises and nothing is copied), a file name is
\* a file whose copy raises (copytree goes on with the other files and raises
\* at the end); "none": the copy succeeds.
CopyErrors == {"none", "."} \cup {DeviceIdFile, TelemetryFile, "history.json", "state.vscdb"}

\* shutil.copytree(src, dst, dirs_exist_ok=True) into the snapshot `tree`:
\* `made` are the directories it creates, `prefix` the destination path of the
\* files `src` (name -> content), `err` the entry whose copy raises.
copytree(tree, src, made, prefix, err) ==
    IF err = "."
    THEN tree
    ELSE LET copied == DOMAIN src \ {err}
             dst == {prefix \o n : n \in copied}
         IN  [dirs |-> tree.dirs \cup made,
              files |-> [p \in DOMAIN tree.files \cup dst |->
                            IF p \in dst
                            THEN src[CHOOSE n \in copied : prefix \o n = p]
                            ELSE tree.files[p]]]

\* Whether copytree raised: the erring entry is one the copy meets.
raised(src, err) == err = "." \/ err \in DOMAIN src

\* The files under augment_paths["vscode"]: the configuration directory is
\* its sub-directory augment.augment.
vscode_files == IF "augment_config" \in dirs THEN files ELSE EmptyMap

\* backup_path of a backup started now.
backup_path == "backup_" \o ToString(timestamp)

\* The snapshot tree after the first copy (lines 104-114).
backup_config(tree, err) ==
    IF "augment_config" \in DOMAIN augment_paths /\ exists(augment_paths["augment_config"])
    THEN [tree |-> copytree(tree, files, {"augment_config"}, "augment_config/", err),
          log |-> IF raised(files, err)
                  THEN <<"ERROR config backup failed">>
                  ELSE <<"INFO config backup done">>]
    ELSE [tree |-> tree, log |-> <<>>]

\* The snapshot tree after the second copy (lines 116-126).
backup_vscode(tree, err) ==
    IF "vscode" \in DOMAIN augment_paths /\ exists(augment_paths["vscode"])
    THEN [tree |-> copytree(tree, vscode_files,
                            {"vscode_global_storage"} \cup
                              (IF "augment_config" \in dirs
                               THEN {"vscode_global_storage/augment.augment"} ELSE {}),
                            "vscode_global_storage/augment.augment/", err),
          log |-> IF raised(vscode_files, err)
                  THEN <<"ERROR vscode backup failed">>
                  ELSE <<"INFO vscode backup done">>]
    ELSE [tree |-> tree, log |-> <<>>]

\* backup_current_state(): err_config and err_vscode are the entries at which
\* the first and the second copytree raise.
backup_current_state(err_config, err_vscode) ==
    LET \* backup_path.mkdir(parents=True, exist_ok=True)
        t0 == IF backup_path \in DOMAIN backups
              THEN backups[backup_path]
              ELSE [dirs |-> {}, files |-> EmptyMap]
        c1 == backup_config(t0, err_config)
        c2 == backup_vscode(c1.tree, err_vscode)
    IN  /\ backups' = Put(backups, backup_path, c2.tree)
        /\ Ran([NoCmd EXCEPT !.command = "backup",
                             !.fail = (IF raised(files, err_config) /\ c1.log # <<>>
                                       THEN {"augment_config"} ELSE {})
                                 \cup (IF raised(vscode_files, err_vscode) /\ c2.log # <<>>
                                       THEN {"vscode"} ELSE {})],
               [status |-> "ok", value |-> backup_path],
               <<"INFO backing up">> \o c1.log \o c2.log)
        /\ UNCHANGED <<dirs, files, workspaces>>

----------------------------------------------------------------------------
\* Reset Operator

\* config.get('reset_strategies', []) of the default configuration.
default_strategies == {"device_id", "telemetry_id", "history", "database"}

\* Each strategy maps the files `f` of the configuration directory to
\* [files, log]; `fail` says that its open() or rename() raises an I/O error,
\* which leaves the files as they were.

\* _reset_device_id without its else branch: an absent file is left absent.
_reset_device_id_existing_only(f, new_device_id, fail) ==
    IF DeviceIdFile \in DOMAIN f /\ ~fail
    THEN [files |-> Put(f, DeviceIdFile, new_device_id),
          log |-> <<"INFO reset device id", "INFO device id updated">>]
    ELSE [files |-> f, log |-> <<"INFO reset device id">>]

\* _reset_device_id(): writes the file whether it exists or not.
_reset_device_id(f, new_device_id, fail) ==
    IF DeviceIdFile \in DOMAIN f
    THEN IF fail
         THEN [files |-> f,
               log |-> <<"INFO reset device id", "ERROR update device id failed">>]
         ELSE [files |-> Put(f, DeviceIdFile, new_device_id),
               log |-> <<"INFO reset device id", "INFO device id updated">>]
    ELSE IF fail
         THEN [files |-> f,
               log |-> <<"INFO reset device id", "ERROR create device id failed">>]
         ELSE [files |-> Put(f, DeviceIdFile, new_device_id),
               log |-> <<"INFO reset device id", "INFO device id created">>]

\* _reset_telemetry_id(): writes the file whether it exists or not.
_reset_telemetry_id(f, new_telemetry_id, fail) ==
    IF TelemetryFile \in DOMAIN f
    THEN IF fail
         THEN [files |-> f,
               log |-> <<"INFO reset telemetry id", "ERROR update telemetry id failed">>]
         ELSE [files |-> Put(f, TelemetryFile, new_telemetry_id),
               log |-> <<"INFO reset telemetry id", "INFO telemetry id updated">>]
    ELSE IF fail
         THEN [files |-> f,
               log |-> <<"INFO reset telemetry id", "ERROR create telemetry id failed">>]
         ELSE [files |-> Put(f, TelemetryFile, new_telemetry_id),
               log |-> <<"INFO reset telemetry id", "INFO telemetry id created">>]

\* _clear_history without the exists() test: open(history_file, 'w') creates
\* an absent history file.
_clear_history_create(f, fail) ==
    IF fail
    THEN [files |-> f,
          log |-> <<"INFO clear history", "ERROR clear history failed">>]
    ELSE [files |-> Put(f, "history.json", 0),
          log |-> <<"INFO clear history", "INFO history cleared">>]

\* _clear_history(): json.dump([]) into the history file, if it exists.
_clear_history(f, fail) ==
    IF "history" \in DOMAIN augment_paths /\ augment_paths["history"] \in DOMAIN f
    THEN IF fail
         THEN [files |-> f,
               log |-> <<"INFO clear history", "ERROR clear history failed">>]
         ELSE [files |-> Put(f, augment_paths["history"], 0),
               log |-> <<"INFO clear history", "INFO history cleared">>]
    ELSE [files |-> f, log |-> <<"INFO clear history">>]

\* database_file.with_name(f"state_backup_{timestamp}.vscdb")
with_name(ts) == "state_backup_" \o ToString(ts) \o ".vscdb"

\* Path.rename(target) raises FileExistsError on Windows when the target
\* exists; elsewhere it replaces the target.
rename_raises(f, target) == system = "Windows" /\ target \in DOMAIN f

\* _reset_database(): renames the database, if it exists.
_reset_database(f, fail) ==
    IF "database" \in DOMAIN augment_paths /\ augment_paths["database"] \in DOMAIN f
    THEN LET database_file == augment_paths["database"]
             backup_db == with_name(timestamp)
         IN  IF fail \/ rename_raises(f, backup_db)
             THEN [files |-> f,
                   log |-> <<"INFO reset database", "ERROR reset database failed">>]
             ELSE [files |-> Put(Remove(f, database_file), backup_db, f[database_file]),
                   log |-> <<"INFO reset database", "INFO database reset">>]
    ELSE [files |-> f, log |-> <<"INFO reset database">>]

\* The strategies of one run whose I/O operation was reached and raised.
io_failed(f, s, fail) ==
    {x \in s \cap fail :
        \/ x \in {"device_id", "telemetry_id"}
        \/ x = "history" /\ "history.json" \in DOMAIN f
        \/ x = "database" /\ "state.vscdb" \in DOMAIN f}

\* A strategy that is not selected.
skip(f) == [files |-> f, log |-> <<>>]

\* run_strategies with an I/O error that is not caught in the strategy: the
\* strategies after the first one that fails do not run.
run_strategies_abort(f, s, fail, new_device_id, new_telemetry_id) ==
    LET bad == io_failed(f, s, fail)
        r1 == IF "device_id" \in s
              THEN _reset_device_id(f, new_device_id, "device_id" \in fail)
              ELSE skip(f)
        r2 == IF "telemetry_id" \in s /\ "device_id" \notin bad
              THEN _reset_telemetry_id(r1.files, new_telemetry_id, "telemetry_id" \in fail)
              ELSE skip(r1.files)
        r3 == IF "history" \in s /\ bad \cap {"device_id", "telemetry_id"} = {}
              THEN _clear_history(r2.files, "history" \in fail)
              ELSE skip(r2.files)
        r4 == IF "database" \in s /\ bad \cap {"device_id", "telemetry_id", "history"} = {}
              THEN _reset_database(r3.files, "database" \in fail)
              ELSE skip(r3.files)
    IN  [files |-> r4.files, log |-> r1.log \o r2.log \o r3.log \o r4.log]

\* The four steps of reset_environment (lines 146-160) on the files f: the
\* selected strategies, in this order, each on what the one before left.
run_strategies(f, s, fail, new_device_id, new_telemetry_id) ==
    LET r1 == IF "device_id" \in s
              THEN _reset_device_id(f, new_device_id, "device_id" \in fail)
              ELSE skip(f)
        r2 == IF "telemetry_id" \in s
              THEN _reset_telemetry_id(r1.files, new_telemetry_id, "telemetry_id" \in fail)
              ELSE skip(r1.files)
        r3 == IF "history" \in s
              THEN _clear_history(r2.files, "history" \in fail)
              ELSE skip(r2.files)
        r4 == IF "database" \in s
              THEN _reset_database(r3.files, "database" \in fail)
              ELSE skip(r3.files)
    IN  [files |-> r4.files, log |-> r1.log \o r2.log \o r3.log \o r4.log]

\* reset_environment(strategies): `fail` are the strategies whose I/O raises.
reset_environment(strategies, fail, new_device_id, new_telemetry_id) ==
    LET s == IF strategies = {} THEN default_strategies ELSE strategies
        r == run_strategies(files, s, fail, new_device_id, new_telemetry_id)
    IN
    IF "augment_config" \notin DOMAIN augment_paths
       \/ ~exists(augment_paths["augment_config"])
    THEN /\ Ran([NoCmd EXCEPT !.command = "reset", !.strategies = s],
                [status |-> "ok", value |-> "None"],
                <<"INFO reset start", "WARNING config directory not found">>)
         /\ UNCHANGED <<dirs, files, backups, workspaces>>
    ELSE /\ files' = r.files
         /\ Ran([NoCmd EXCEPT !.command = "reset", !.strategies = s,
                              !.fail = io_failed(files, s, fail)],
                [status |-> "ok", value |-> "None"],
                <<"INFO reset start">> \o r.log \o <<"INFO reset complete">>)
         /\ UNCHANGED <<dirs, backups, workspaces>>

----------------------------------------------------------------------------
\* The environment

\* Time passes between two commands.
Tick ==
    /\ now < MaxNow
    /\ now' = now + 1
    /\ UNCHANGED <<system, dirs, files, backups, workspaces, cmd, ret, log, pre>>

\* The editor ran between two commands; what the last command left is no
\* longer what the filesystem holds.
Edited ==
    /\ cmd' = [NoCmd EXCEPT !.command = "editor"]
    /\ UNCHANGED <<system, now, dirs, backups, workspaces, ret, log, pre>>

\* The editor recreates the state database it does not find.
EditorRecreatesDatabase ==
    /\ "augment_config" \in dirs
    /\ "state.vscdb" \notin DOMAIN files
    /\ \E c \in DbContents : files' = Put(files, "state.vscdb", c)
    /\ Edited

\* The extension records one more entry in its history file.
EditorAppendsHistory ==
    /\ "augment_config" \in dirs
    /\ "history.json" \in DOMAIN files
    /\ files["history.json"] < MaxHistory
    /\ files' = Put(files, "history.json", files["history.json"] + 1)
    /\ Edited

\* The live configurations a command may find: the editor not installed, the
\* editor without the extension, the extension with any of its four files.
\* The history file starts empty or full; an earlier reset of this second may
\* have left its database backup.
InitFiles ==
    {[n \in S |-> IF n = "history.json" THEN h ELSE 1] :
        S \in SUBSET {DeviceIdFile, TelemetryFile, "history.json", "state.vscdb",
                      with_name(0)},
        h \in {0, MaxHistory}}

Init ==
    /\ system \in Systems
    /\ now = 0
    /\ \/ dirs \in {{}, {"vscode"}} /\ files = EmptyMap
       \/ dirs = {"vscode", "augment_config"} /\ files \in InitFiles
    /\ backups = EmptyMap
    /\ workspaces = EmptyMap
    /\ cmd = NoCmd
    /\ ret = [status |-> "ok", value |-> "None"]
    /\ log = <<>>
    /\ pre = [now |-> 0, dirs |-> dirs, files |-> files,
              backups |-> EmptyMap, workspaces |-> EmptyMap]

\* No database backup has been made yet.
InitClean == Init /\ \A ts \in 0..MaxNow : with_name(ts) \notin DOMAIN files

\* The whole tool: any command with any input, the editor in between.  The
\* specifications below restrict it (fewer commands, fewer inputs, fewer
\* initial states), so each of their behaviours is a behaviour of Spec.
Next ==
    \/ Tick
    \/ EditorRecreatesDatabase
    \/ EditorAppendsHistory
    \/ \E name \in Names : \E device_id, telemetry_id \in Ids :
          create_workspace(name, device_id, telemetry_id)
    \/ \E name \in Names : switch_to_workspace(name)
    \/ \E err_config, err_vscode \in CopyErrors :
          backup_current_state(err_config, err_vscode)
    \/ \E strategies \in SUBSET Strategies : \E fail \in SUBSET Strategies :
          \E new_device_id, new_telemetry_id \in Ids :
             reset_environment(strategies, fail, new_device_id, new_telemetry_id)

Spec == Init /\ [][Next]_vars

\* Workspace commands only.
NextWorkspace ==
    \/ Tick
    \/ \E name \in Names : \E device_id, telemetry_id \in Ids :
          create_workspace(name, device_id, telemetry_id)
    \/ \E name \in Names : switch_to_workspace(name)

SpecWorkspace == Init /\ [][NextWorkspace]_vars

\* Repeated backups, the extension writing its history in between.
NextBackup ==
    \/ Tick
    \/ EditorAppendsHistory
    \/ backup_current_state("none", "none")

SpecBackup == InitClean /\ [][NextBackup]_vars

\* One command, reset or backup, from every initial configuration.
NextOnce ==
    \/ Tick
    \/ /\ cmd = NoCmd
       /\ \E strategies \in SUBSET Strategies : \E fail \in SUBSET Strategies :
            \E new_device_id, new_telemetry_id \in Ids :
               reset_environment(strategies, fail, new_device_id, new_telemetry_id)
    \/ /\ cmd = NoCmd
       /\ \E err_config, err_vscode \in CopyErrors :
             backup_current_state(err_config, err_vscode)

SpecOnce == Init /\ [][NextOnce]_vars

\* Repeated resets of the database, the editor recreating it in between.
NextDatabase ==
    \/ Tick
    \/ EditorRecreatesDatabase
    \/ \E strategies \in {{}, {"database"}} : \E fail \in {{}, {"database"}} :
          \E new_device_id, new_telemetry_id \in Ids :
             reset_environment(strategies, fail, new_device_id, new_telemetry_id)

SpecDatabase == InitClean /\ [][NextDatabase]_vars

\* Every command on a host whose operating system is not recognised.
InitUnsupported == Init /\ system = "Other"

NextUnsupported ==
    \/ Tick
    \/ \E name \in Names : \E device_id, telemetry_id \in Ids :
          create_workspace(name, device_id, telemetry_id)
    \/ \E name \in Names : switch_to_workspace(name)
    \/ \E strategies \in {{}} \cup {{x} : x \in Strategies} :
          \E fail \in {{}, Strategies} :
             reset_environment(strategies, fail, 1, 1)
    \/ \E err \in {"none", "."} : backup_current_state(err, err)

SpecUnsupported == InitUnsupported /\ [][NextUnsupported]_vars

----------------------------------------------------------------------------
\* The claims.  A state in which cmd.command names a command is a state that
\* command left (Tick alone may have followed); pre is the filesystem the
\* command started from.

Supported == system \in {"Windows", "Darwin", "Linux"}

Contains(seq, x) == \E i \in DOMAIN seq : seq[i] = x

\* The strategies of the last reset_environment ran (it did not return early).
ResetRan == cmd.command = "reset" /\ Supported /\ "augment_config" \in pre.dirs

\* The database backups among the files f.
DbBackups(f) == {n \in DOMAIN f : \E ts \in 0..MaxNow : n = with_name(ts)}

\* Every file name of the configuration directory.
FileNames ==
    {DeviceIdFile, TelemetryFile, "history.json", "state.vscdb"}
        \cup {with_name(ts) : ts \in 0..MaxNow}

\* The snapshot holds a complete copy of the files `src` under `prefix`.
HoldsCopy(tree, src, prefix) ==
    \A n \in DOMAIN src :
        /\ prefix \o n \in DOMAIN tree.files
        /\ tree.files[prefix \o n] = src[n]

\* The snapshot holds, under `prefix`, the files `src` and no other.
HoldsExactly(tree, src, prefix) ==
    /\ HoldsCopy(tree, src, prefix)
    /\ \A n \in FileNames \ DOMAIN src : prefix \o n \notin DOMAIN tree.files

\* C1: create_workspace(n) on an existing profile n reports a failure and
\* leaves the stored profile as it was.
C1_CreateExistingFails ==
    (cmd.command = "create-workspace" /\ cmd.name \in DOMAIN pre.workspaces)
    => /\ workspaces = pre.workspaces
       /\ ~Contains(log, "INFO created workspace")

\* C2: after switch_to_workspace(n) on an existing profile n the live
\* device-id file exists and holds the profile's device_id, and the backup
\* directory holds a snapshot it did not hold before.
C2_SwitchAppliesAndBacksUp ==
    (cmd.command = "switch-workspace" /\ cmd.name \in DOMAIN pre.workspaces)
    => /\ "augment_config" \in dirs
       /\ DeviceIdFile \in DOMAIN files
       /\ files[DeviceIdFile] = pre.workspaces[cmd.name].device_id
       /\ DOMAIN backups \ DOMAIN pre.backups # {}

\* C3: backup_current_state() without a configuration root returns no
\* snapshot and creates no snapshot directory.
C3_BackupWithoutRootIsEmpty ==
    (cmd.command = "backup" /\ "augment_config" \notin pre.dirs)
    => /\ ret.value = "None"
       /\ backups = pre.backups

\* C4: a backup_current_state() whose copies succeed on an existing
\* configuration root makes a snapshot directory that did not exist, holding
\* exactly the files of the configuration root at the call, and leaves every
\* earlier snapshot as it was.
C4_BackupsAreDistinctAndComplete ==
    (cmd.command = "backup" /\ cmd.fail = {} /\ Supported
       /\ "augment_config" \in pre.dirs)
    => /\ ret.value \notin DOMAIN pre.backups
       /\ ret.value \in DOMAIN backups
       /\ HoldsExactly(backups[ret.value], pre.files, "augment_config/")
       /\ \A b \in DOMAIN pre.backups : backups[b] = pre.backups[b]

\* C5: after a reset with the database strategy on an existing database whose
\* rename meets no I/O error, no file is at the database path, exactly one
\* new backup file holds the original content, and every earlier database
\* backup is kept with its content.
C5_DatabaseResetKeepsBackups ==
    (ResetRan /\ "database" \in cmd.strategies /\ "database" \notin cmd.fail
       /\ "state.vscdb" \in DOMAIN pre.files)
    => /\ "state.vscdb" \notin DOMAIN files
       /\ \E n \in DbBackups(files) \ DbBackups(pre.files) :
             /\ DbBackups(files) = DbBackups(pre.files) \cup {n}
             /\ files[n] = pre.files["state.vscdb"]
       /\ \A n \in DbBackups(pre.files) :
             n \in DOMAIN files /\ files[n] = pre.files[n]

\* C6 as stated: after the history-clear strategy ran without an I/O error the
\* history file exists and holds zero entries, whether or not it existed.
C6_HistoryExistsEmpty ==
    (ResetRan /\ "history" \in cmd.strategies /\ "history" \notin cmd.fail)
    => /\ "history.json" \in DOMAIN files
       /\ files["history.json"] = 0

\* C6 (amended): after the history-clear strategy ran without an I/O error, a
\* history file that existed holds zero entries, and a history file that was
\* absent is still absent: the strategy does not create it.
C6_HistoryEmptiedNotCreated ==
    (ResetRan /\ "history" \in cmd.strategies /\ "history" \notin cmd.fail)
    => IF "history.json" \in DOMAIN pre.files
       THEN "history.json" \in DOMAIN files /\ files["history.json"] = 0
       ELSE "history.json" \notin DOMAIN files

\* C6 witness: history clear ran without error on a configuration directory
\* that had no history file, and there is none afterwards.
C6_Witness ==
    /\ ResetRan /\ "history" \in cmd.strategies /\ cmd.fail = {}
    /\ "history.json" \notin DOMAIN pre.files
    /\ "history.json" \notin DOMAIN files

\* C6, the other case: the history file existed with entries and was emptied.
C6_WitnessEmptied ==
    /\ ResetRan /\ "history" \in cmd.strategies /\ cmd.fail = {}
    /\ "history.json" \in DOMAIN pre.files /\ pre.files["history.json"] > 0
    /\ files["history.json"] = 0

\* C7: a reset_environment run on an existing configuration root leaves a
\* backup snapshot that was not there before; a run changes nothing only when
\* the configuration root is absent.
C7_ResetBacksUpFirst ==
    cmd.command = "reset"
    => IF Supported /\ "augment_config" \in pre.dirs
       THEN DOMAIN backups \ DOMAIN pre.backups # {}
       ELSE files = pre.files /\ dirs = pre.dirs

\* C8: on an unrecognised operating system the path mapping is empty, and
\* backup, reset and switch on an existing profile end without an unhandled
\* error and without a write to the live configuration.
C8_UnsupportedDegrades ==
    (~Supported
       /\ \/ cmd.command \in {"backup", "reset"}
          \/ cmd.command = "switch-workspace" /\ cmd.name \in DOMAIN pre.workspaces)
    => /\ DOMAIN augment_paths = {}
       /\ ret.status = "ok"
       /\ files = pre.files /\ dirs = pre.dirs

\* The file a strategy works on.
Target(x) ==
    CASE x = "device_id" -> DeviceIdFile
      [] x = "telemetry_id" -> TelemetryFile
      [] x = "history" -> "history.json"
      [] x = "database" -> "state.vscdb"

\* C9 as stated: a reset of a single strategy whose target file is absent
\* leaves the filesystem as it was and raises no error.
C9_AbsentTargetNoOp ==
    \A x \in Strategies :
        (ResetRan /\ cmd.strategies = {x} /\ Target(x) \notin DOMAIN pre.files)
        => /\ files = pre.files /\ dirs = pre.dirs
           /\ backups = pre.backups /\ workspaces = pre.workspaces
           /\ ret.status = "ok"

\* C9 (amended): history clear and database reset leave an absent target
\* absent, and run alone leave the filesystem as it was; device-id reset and
\* telemetry reset run alone on an absent target create the target with a
\* generated identifier, unless the write raises, and change nothing else.
C9_AbsentTargetNoOpOrCreated ==
    \A x \in Strategies :
        (ResetRan /\ x \in cmd.strategies /\ Target(x) \notin DOMAIN pre.files)
        => /\ ret.status = "ok"
           /\ dirs = pre.dirs /\ backups = pre.backups
           /\ workspaces = pre.workspaces
           /\ x \in {"history", "database"} => Target(x) \notin DOMAIN files
           /\ (x \in {"history", "database"} /\ cmd.strategies = {x})
                 => files = pre.files
           /\ (x \in {"device_id", "telemetry_id"} /\ cmd.strategies = {x})
                 => IF x \in cmd.fail
                    THEN files = pre.files
                    ELSE \E id \in Ids : files = Put(pre.files, Target(x), id)

\* C9 witness: device-id reset ran alone on a configuration directory that
\* held other files but no device-id file, and created it.
C9_Witness ==
    /\ ResetRan /\ cmd.strategies = {"device_id"} /\ cmd.fail = {}
    /\ DeviceIdFile \notin DOMAIN pre.files
    /\ DeviceIdFile \in DOMAIN files
    /\ pre.files # EmptyMap

\* The log line that starts each strategy, in the order of reset_environment.
StartLines ==
    <<"INFO reset device id", "INFO reset telemetry id", "INFO clear history",
      "INFO reset database">>

StrategyOf(line) ==
    CASE line = "INFO reset device id" -> "device_id"
      [] line = "INFO reset telemetry id" -> "telemetry_id"
      [] line = "INFO clear history" -> "history"
      [] line = "INFO reset database" -> "database"
      [] OTHER -> "none"

IsStartLine(line) == StrategyOf(line) # "none"

IsSelected(line) == StrategyOf(line) \in cmd.strategies

\* What a strategy that met no error has done to its target.
TookEffect(x) ==
    CASE x = "device_id" -> DeviceIdFile \in DOMAIN files
      [] x = "telemetry_id" -> TelemetryFile \in DOMAIN files
      [] x = "history" ->
            "history.json" \in DOMAIN pre.files
            => "history.json" \in DOMAIN files /\ files["history.json"] = 0
      [] x = "database" ->
            ("state.vscdb" \in DOMAIN pre.files
               /\ ~(system = "Windows"
                      /\ with_name(pre.now \div TicksPerSecond) \in DOMAIN pre.files))
            => /\ "state.vscdb" \notin DOMAIN files
               /\ with_name(pre.now \div TicksPerSecond) \in DOMAIN files

\* C10: a reset_environment run starts its selected strategies in the order
\* device_id, telemetry_id, history, database, whichever of them meet an I/O
\* error, every strategy that meets none takes effect, and the run returns;
\* in backup_current_state a failed copy of one source leaves the copy of the
\* other source complete, and the call returns the snapshot.
C10_PartialSuccess ==
    /\ ResetRan
       => /\ SelectSeq(log, IsStartLine) = SelectSeq(StartLines, IsSelected)
          /\ \A x \in cmd.strategies \ cmd.fail : TookEffect(x)
          /\ ret.status = "ok"
          /\ log[Len(log)] = "INFO reset complete"
    /\ (cmd.command = "backup" /\ Supported)
       => /\ ret.status = "ok" /\ ret.value \in DOMAIN backups
          /\ ("vscode" \in pre.dirs /\ "vscode" \notin cmd.fail)
                => /\ "vscode_global_storage" \in backups[ret.value].dirs
                   /\ HoldsCopy(backups[ret.value], pre.files,
                                "vscode_global_storage/augment.augment/")
          /\ ("augment_config" \in pre.dirs /\ "augment_config" \notin cmd.fail)
                => /\ "augment_config" \in backups[ret.value].dirs
                   /\ HoldsCopy(backups[ret.value], pre.files, "augment_config/")

\* C10 witness: the first three strategies met an I/O error and the database
\* was still renamed.
C10_Witness ==
    /\ ResetRan
    /\ cmd.fail = {"device_id", "telemetry_id", "history"}
    /\ cmd.strategies = Strategies
    /\ "state.vscdb" \in DOMAIN pre.files
    /\ "state.vscdb" \notin DOMAIN files
    /\ with_name(pre.now \div TicksPerSecond) \in DOMAIN files

====
